---- MODULE Spec2Model ----
(***************************************************************************)
(* Model of brute_forcer.py: PasswordGuesser._payload, ._try_login, .run   *)
(* and the entry point main().                                             *)
(*                                                                         *)
(* Texts (template, username, candidates) are sequences of one-character   *)
(* strings.  The coroutines are modelled step by step: one action is the   *)
(* code a task runs between two suspension points of the asyncio event     *)
(* loop (CPython >= 3.11: asyncio.Semaphore hands a released permit to the *)
(* first waiter, CancelledError is a BaseException).  Tasks take their     *)
(* first step in creation order; apart from that the order in which ready  *)
(* tasks and run() take their steps is left open, which includes the       *)
(* first-in-first-out order of the event loop.                             *)
(***************************************************************************)
EXTENDS Integers, Sequences, FiniteSets, TLC

\* ------------------------------------------------------------------------
\* Bounds of the model
\* ------------------------------------------------------------------------
MaxPasswords == 3   \* longest wordlist explored
MaxThreads == 2     \* largest semaphore size explored

\* ------------------------------------------------------------------------
\* Texts
\* ------------------------------------------------------------------------
USER == <<"^", "U", "S", "E", "R", "^">>
PASS == <<"^", "P", "A", "S", "S", "^">>

\* str.startswith(prefix) at offset i (1-based)
StartsAt(s, i, pat) ==
    /\ i + Len(pat) - 1 <= Len(s)
    /\ \A k \in 1..Len(pat) : s[i + k - 1] = pat[k]

\* str.replace(pat, rep): leftmost non-overlapping occurrences, pat non-empty
RECURSIVE ReplaceFrom(_, _, _, _)
ReplaceFrom(s, i, pat, rep) ==
    IF i > Len(s) THEN <<>>
    ELSE IF StartsAt(s, i, pat)
         THEN rep \o ReplaceFrom(s, i + Len(pat), pat, rep)
         ELSE <<s[i]>> \o ReplaceFrom(s, i + 1, pat, rep)

Replace(s, pat, rep) == ReplaceFrom(s, 1, pat, rep)

\* str.split(sep) for a one-character separator: always at least one piece
RECURSIVE SplitFrom(_, _, _, _)
SplitFrom(s, i, sep, cur) ==
    IF i > Len(s) THEN <<cur>>
    ELSE IF s[i] = sep
         THEN <<cur>> \o SplitFrom(s, i + 1, sep, <<>>)
         ELSE SplitFrom(s, i + 1, sep, Append(cur, s[i]))

Split(s, sep) == SplitFrom(s, 1, sep, <<>>)

\* str.split(sep, 1): one piece when sep is absent, else two (cut at the first)
SplitFirst(s, sep) ==
    IF \E i \in 1..Len(s) : s[i] = sep
    THEN LET i == CHOOSE k \in 1..Len(s) :
                      s[k] = sep /\ \A m \in 1..(k - 1) : s[m] # sep
         IN  <<SubSeq(s, 1, i - 1), SubSeq(s, i + 1, Len(s))>>
    ELSE <<s>>

\* ------------------------------------------------------------------------
\* Values of a payload dict.  A dict is a set of <<key, value>> pairs with
\* unique keys; a value is a string or (JSON only) a nested object.
\* ------------------------------------------------------------------------
Str(s) == [t |-> "str", v |-> s]
Obj(d) == [t |-> "obj", v |-> d]

\* d[k] = v (a later key replaces an earlier equal one)
Put(d, k, v) == {p \in d : p[1] # k} \cup {<<k, v>>}

\* ------------------------------------------------------------------------
\* json.loads on the texts of the model.  The texts hold no digit, no '[',
\* no '-' and none of t, f, n, N, I, so a JSON value is a string or an
\* object; every other value start is a JSONDecodeError.
\* ------------------------------------------------------------------------
JsonWs == {" ", "\t", "\n", "\r"}

JsonEscape ==
    [c \in {"\"", "\\", "/", "b", "f", "n", "r", "t"} |->
        CASE c = "\"" -> "\""
          [] c = "\\" -> "\\"
          [] c = "/"  -> "/"
          [] c = "b"  -> "<BS>"
          [] c = "f"  -> "<FF>"
          [] c = "n"  -> "\n"
          [] c = "r"  -> "\r"
          [] c = "t"  -> "\t"]

JsonFail == [ok |-> FALSE, next |-> 0, val |-> Str(<<>>)]
JsonOk(n, v) == [ok |-> TRUE, next |-> n, val |-> v]

RECURSIVE SkipWs(_, _)
SkipWs(s, i) ==
    IF i <= Len(s) /\ s[i] \in JsonWs THEN SkipWs(s, i + 1) ELSE i

\* scanstring: i is the position after the opening quote.  Strict mode:
\* a raw control character inside a string is an error.  (\uXXXX is not
\* decoded: the texts of the model hold no 'u'.)
RECURSIVE ScanString(_, _, _)
ScanString(s, i, acc) ==
    IF i > Len(s) THEN JsonFail
    ELSE IF s[i] = "\"" THEN JsonOk(i + 1, Str(acc))
    ELSE IF s[i] = "\\"
         THEN IF i + 1 <= Len(s) /\ s[i + 1] \in DOMAIN JsonEscape
              THEN ScanString(s, i + 2, Append(acc, JsonEscape[s[i + 1]]))
              ELSE JsonFail
    ELSE IF s[i] \in {"\t", "\n", "\r"} THEN JsonFail
    ELSE ScanString(s, i + 1, Append(acc, s[i]))

RECURSIVE ParseValue(_, _)
RECURSIVE ParseMembers(_, _, _)

\* JSONObject: i is the position after '{'
ParseObject(s, i) ==
    LET j == SkipWs(s, i)
    IN  IF j > Len(s) THEN JsonFail
        ELSE IF s[j] = "}" THEN JsonOk(j + 1, Obj({}))
        ELSE ParseMembers(s, j, {})

\* one "key": value member at i, then ',' and the next member, or '}'
ParseMembers(s, i, acc) ==
    IF i > Len(s) \/ s[i] # "\"" THEN JsonFail
    ELSE LET k == ScanString(s, i + 1, <<>>)
         IN  IF ~k.ok THEN JsonFail
             ELSE LET c == SkipWs(s, k.next)
                  IN  IF c > Len(s) \/ s[c] # ":" THEN JsonFail
                      ELSE LET v == ParseValue(s, SkipWs(s, c + 1))
                           IN  IF ~v.ok THEN JsonFail
                               ELSE LET e == SkipWs(s, v.next)
                                        d == Put(acc, k.val.v, v.val)
                                    IN  IF e > Len(s) THEN JsonFail
                                        ELSE IF s[e] = "}" THEN JsonOk(e + 1, Obj(d))
                                        ELSE IF s[e] = ","
                                             THEN ParseMembers(s, SkipWs(s, e + 1), d)
                                        ELSE JsonFail

ParseValue(s, i) ==
    IF i > Len(s) THEN JsonFail
    ELSE IF s[i] = "\"" THEN ScanString(s, i + 1, <<>>)
    ELSE IF s[i] = "{" THEN ParseObject(s, i + 1)
    ELSE JsonFail

\* json.loads(raw): one value, whitespace around it, nothing after it
JsonLoads(s) ==
    LET v == ParseValue(s, SkipWs(s, 1))
    IN  IF v.ok /\ SkipWs(s, v.next) = Len(s) + 1 THEN v ELSE JsonFail

\* ------------------------------------------------------------------------
\* PasswordGuesser._payload
\* ------------------------------------------------------------------------
\* the outcome of _payload: a dict, or an exception ("raised")
Built(kind, d) == [raised |-> FALSE, kind |-> kind, dict |-> d]
Raised(kind) == [raised |-> TRUE, kind |-> kind, dict |-> {}]

\* dict(kv.split("=", 1) for kv in segs): ValueError on a one-piece segment
RECURSIVE FormDict(_, _, _)
FormDict(segs, i, acc) ==
    IF i > Len(segs) THEN Built("form", acc)
    ELSE LET kv == SplitFirst(segs[i], "=")
         IN  IF Len(kv) # 2 THEN Raised("form")
             ELSE FormDict(segs, i + 1, Put(acc, kv[1], Str(kv[2])))

Substitute(tpl, username, pwd) == Replace(Replace(tpl, USER, username), PASS, pwd)

_payload(tpl, username, pwd) ==
    LET raw == Substitute(tpl, username, pwd)
    IN  IF StartsAt(raw, 1, <<"{">>)
        THEN LET v == JsonLoads(raw)
             IN  IF v.ok THEN Built("json", v.val.v) ELSE Raised("json")
        ELSE FormDict(Split(raw, "&"), 1, {})

\* ------------------------------------------------------------------------
\* Inputs of a run (argparse, PasswordGuesser.__init__)
\* ------------------------------------------------------------------------
TplJson ==
    <<"{", "\"", "e", "\"", ":", "\"">> \o USER \o
    <<"\"", ",", "\"", "p", "\"", ":", "\"">> \o PASS \o <<"\"", "}">>
TplForm == <<"e", "=">> \o USER \o <<"&", "p", "=">> \o PASS
TplJsonBad ==
    <<"{", "\"", "e", "\"", ":", "\"">> \o USER \o
    <<"\"", ",", "\"", "p", "\"", ":", "\"">> \o PASS \o <<"\"">>
TplFormBad == <<"e", "=">> \o USER \o <<"&">> \o PASS

Templates == {TplJson, TplForm, TplJsonBad, TplFormBad}
Usernames == {<<"a", "@", "k">>}
\* wordlist lines after strip(): never empty.  "x" is a plain word; the
\* other one holds a quote and an ampersand.
Candidates == {<<"x">>, <<"\"", "&">>}
Methods == {"POST", "GET"}

Wordlists ==
    UNION {[1..n -> Candidates] : n \in 0..MaxPasswords}

\* the texts of the runs that follow _payload only (SpecPayload)
\* "^PASS^=^USER^": the template begins with a placeholder
TplLeadPass == PASS \o <<"=">> \o USER
\* " {...}": white space before the brace
TplSpaceJson == <<" ">> \o TplJson

PayloadTemplates == {TplJson, TplForm, TplLeadPass, TplSpaceJson}
PayloadUsernames == {<<"a", "@", "k">>, <<"a", "=", "k">>}
PayloadCandidates ==
    {<<"x">>, <<"x", "=", "y">>, <<"x", "&", "k", "=", "y">>, <<"{">>, <<"\\">>}

\* ------------------------------------------------------------------------
\* State
\* ------------------------------------------------------------------------
VARIABLES
    payload_tpl,    \* self.payload_tpl
    username,       \* self.username
    passwords,      \* self.passwords
    method,         \* self.method
    threads,        \* self.threads
    payloads,       \* per password: the value of self._payload(password), a
                    \*   function of the fields above alone; a task reads it
                    \*   when it comes to "pl = self._payload(password)"
    pc,             \* run(): "idle", "awaiting" (in the as_completed loop),
                    \*        "returned", "aborted" (KeyboardInterrupt in main)
    result,         \* what run() returned / main reported
    st,             \* per task: "new", "pending", "waiting", "woken",
                    \*           "inflight", "done", "cancelled"
    cancel_req,     \* tasks whose cancel() is requested and not yet delivered
    ret,            \* per task: value returned by _try_login
    status,         \* per task: how its attempt ended: a status code,
                    \*   "error" (transport), "raised" (_payload), "-"
    sem_value,      \* sem._value
    waiters,        \* sem._waiters (futures that are not cancelled)
    doneq,          \* tasks in the order they completed (as_completed's queue)
    consumed,       \* completions run() has taken from doneq
    iters,          \* iterations of the as_completed loop begun
    progress,       \* number of pbar.update(1) calls
    pbar_closed,    \* pbar.close() has been called
    announced,      \* tasks that printed "[+] Password found", in order
    nreq,           \* per task: number of session.request calls
    req,            \* per task: the arguments of its session.request call
    built,          \* per task: what self._payload(password) gave
    gate_entries,   \* per task: times it entered the body of "async with sem"
    gate_exits,     \* per task: times it left that body
    interrupts      \* SIGINTs delivered to asyncio.run

cfgvars == <<payload_tpl, username, passwords, method, threads, payloads>>
semvars == <<sem_value, waiters>>
outvars == <<progress, pbar_closed, announced>>
reqvars == <<nreq, req, built>>
vars == <<payload_tpl, username, passwords, method, threads, payloads, pc,
          result, st, cancel_req, ret, status, sem_value, waiters, doneq, consumed, iters,
          progress, pbar_closed, announced, nreq, req, built, gate_entries,
          gate_exits, interrupts>>

N == Len(passwords)
Tasks == 1..N

NoResult == [kind |-> "none", task |-> 0, value |-> <<>>]
Found(i) == [kind |-> "Found", task |-> i, value |-> passwords[i]]
Exhausted == [kind |-> "Exhausted", task |-> 0, value |-> <<>>]
Aborted == [kind |-> "Aborted", task |-> 0, value |-> <<>>]

NoRequest ==
    [method |-> "-", jsonGiven |-> FALSE, json |-> {},
     paramsGiven |-> FALSE, params |-> {}, dataGiven |-> FALSE, data |-> {}]

\* _payload not called yet
NoPayload == [raised |-> FALSE, kind |-> "-", dict |-> {}]

\* before run() is called: no semaphore, no task, nothing reported
Idle ==
    /\ payloads = [i \in Tasks |-> _payload(payload_tpl, username, passwords[i])]
    /\ pc = "idle"
    /\ result = NoResult
    /\ st = [i \in Tasks |-> "new"]
    /\ cancel_req = {}
    /\ ret = [i \in Tasks |-> "-"]
    /\ status = [i \in Tasks |-> "-"]
    /\ sem_value = 0
    /\ waiters = <<>>
    /\ doneq = <<>>
    /\ consumed = 0
    /\ iters = 0
    /\ progress = 0
    /\ pbar_closed = FALSE
    /\ announced = <<>>
    /\ nreq = [i \in Tasks |-> 0]
    /\ req = [i \in Tasks |-> NoRequest]
    /\ built = [i \in Tasks |-> NoPayload]
    /\ gate_entries = [i \in Tasks |-> 0]
    /\ gate_exits = [i \in Tasks |-> 0]
    /\ interrupts = 0

Init ==
    /\ payload_tpl \in Templates
    /\ username \in Usernames
    /\ passwords \in Wordlists
    /\ method \in Methods
    /\ threads \in 1..MaxThreads
    /\ Idle

\* ------------------------------------------------------------------------
\* asyncio.Semaphore (sem = asyncio.Semaphore(self.threads))
\* ------------------------------------------------------------------------
Remove(w, i) == SelectSeq(w, LAMBDA t : t # i)

\* Semaphore.locked(): cancelled futures are taken out of waiters when their
\* task is cancelled, so every future in waiters counts
Locked_Never(val, w) == FALSE

Locked(val, w) == val = 0 \/ w # <<>>

\* Semaphore._wake_up_next(): the first waiter whose future is not done gets
\* the permit (value -= 1; fut.set_result(True))
WakeUpNext_Nobody(val, stm, w) == [val |-> val, st |-> stm]

WakeUpNext_KeepsValue(val, stm, w) ==
    IF \E k \in 1..Len(w) : stm[w[k]] = "waiting"
    THEN LET k == CHOOSE j \in 1..Len(w) :
                      /\ stm[w[j]] = "waiting"
                      /\ \A m \in 1..(j - 1) : stm[w[m]] # "waiting"
         IN  [val |-> val, st |-> [stm EXCEPT ![w[k]] = "woken"]]
    ELSE [val |-> val, st |-> stm]

WakeUpNext(val, stm, w) ==
    IF \E k \in 1..Len(w) : stm[w[k]] = "waiting"
    THEN LET k == CHOOSE j \in 1..Len(w) :
                      /\ stm[w[j]] = "waiting"
                      /\ \A m \in 1..(j - 1) : stm[w[m]] # "waiting"
         IN  [val |-> val - 1, st |-> [stm EXCEPT ![w[k]] = "woken"]]
    ELSE [val |-> val, st |-> stm]

\* Semaphore.release(), called by "async with sem" on every exit
Release_Lost(val, stm, w) == [val |-> val, st |-> stm]

Release(val, stm, w) == WakeUpNext(val + 1, stm, w)

\* ------------------------------------------------------------------------
\* PasswordGuesser._try_login
\* ------------------------------------------------------------------------
\* statuses the server answers with in the model
StatusCodes == {"200", "401"}

\* "if resp.status == 200"
IsSuccess_Any(code) == TRUE

IsSuccess(code) == code = "200"

\* pbar.update(1)
PbarUpdate_Skipped(n) == n

PbarUpdate(n) == n + 1

\* the keyword arguments of session.request
Request(m, pl) ==
    [method |-> m,
     jsonGiven |-> (m = "POST"), json |-> IF m = "POST" THEN pl ELSE {},
     paramsGiven |-> (m = "GET"), params |-> IF m = "GET" THEN pl ELSE {},
     dataGiven |-> FALSE, data |-> {}]

\* The task leaves "async with sem" by return: release, task done, its
\* done-callback queues it for as_completed.
Finish(i, val, stm, w, r, how) ==
    LET rel == Release(val, stm, w)
    IN  /\ sem_value' = rel.val
        /\ st' = [rel.st EXCEPT ![i] = "done"]
        /\ waiters' = w
        /\ ret' = [ret EXCEPT ![i] = r]
        /\ status' = [status EXCEPT ![i] = how]
        /\ doneq' = Append(doneq, i)
        /\ gate_exits' = [gate_exits EXCEPT ![i] = @ + 1]

\* Body of "async with sem" up to the first suspension: build the payload;
\* an exception of _payload is swallowed by "except Exception" and the
\* attempt ends as a non-success; otherwise session.request is called and
\* the task waits for the response.
Enter(i, val, stm, w) ==
    LET pl == payloads[i]
    IN  /\ gate_entries' = [gate_entries EXCEPT ![i] = @ + 1]
        /\ built' = [built EXCEPT ![i] = pl]
        /\ IF pl.raised
           THEN /\ Finish(i, val, stm, w, "None", "raised")
                /\ progress' = PbarUpdate(progress)
                /\ UNCHANGED <<pbar_closed, announced, nreq, req>>
           ELSE /\ sem_value' = val
                /\ st' = [stm EXCEPT ![i] = "inflight"]
                /\ waiters' = w
                /\ nreq' = [nreq EXCEPT ![i] = @ + 1]
                /\ req' = [req EXCEPT ![i] = Request(method, pl.dict)]
                /\ UNCHANGED <<ret, status, doneq, gate_exits, outvars>>

\* First step of a task (tasks start in creation order): sem.acquire()
\* either takes a permit at once or queues the task.
Start(i) ==
    /\ st[i] = "pending"
    /\ \A j \in 1..(i - 1) : st[j] # "pending"
    /\ IF ~Locked(sem_value, waiters)
       THEN Enter(i, sem_value - 1, st, waiters)
       ELSE /\ waiters' = Append(waiters, i)
            /\ st' = [st EXCEPT ![i] = "waiting"]
            /\ UNCHANGED <<sem_value, ret, status, doneq, gate_entries,
                           gate_exits, outvars, reqvars>>
    /\ UNCHANGED <<cfgvars, pc, result, cancel_req, consumed, iters, interrupts>>

\* A waiter that was handed a permit resumes in acquire(): it leaves the
\* waiters, wakes the next one if a permit is free, and enters the body.
Resume(i) ==
    /\ st[i] = "woken"
    /\ i \notin cancel_req
    /\ LET w == Remove(waiters, i)
           nx == IF sem_value > 0
                 THEN WakeUpNext(sem_value, st, w)
                 ELSE [val |-> sem_value, st |-> st]
       IN  Enter(i, nx.val, nx.st, w)
    /\ UNCHANGED <<cfgvars, pc, result, cancel_req, consumed, iters, interrupts>>

\* The response arrives.  resp.status == 200: pbar.close(), print, return
\* password.  Any other status: leave the try block, pbar.update(1), return
\* None.
Response(i, code) ==
    /\ st[i] = "inflight"
    /\ i \notin cancel_req
    /\ IF IsSuccess(code)
       THEN /\ Finish(i, sem_value, st, waiters, "password", code)
            /\ pbar_closed' = TRUE
            /\ announced' = Append(announced, i)
            /\ UNCHANGED progress
       ELSE /\ Finish(i, sem_value, st, waiters, "None", code)
            /\ progress' = PbarUpdate(progress)
            /\ UNCHANGED <<pbar_closed, announced>>
    /\ UNCHANGED <<reqvars, gate_entries>>
    /\ UNCHANGED <<cfgvars, pc, result, cancel_req, consumed, iters, interrupts>>

\* connection error, TLS error or timeout: an Exception, swallowed;
\* pbar.update(1), return None
RequestError(i) ==
    /\ st[i] = "inflight"
    /\ i \notin cancel_req
    /\ Finish(i, sem_value, st, waiters, "None", "error")
    /\ progress' = PbarUpdate(progress)
    /\ UNCHANGED <<pbar_closed, announced, reqvars, gate_entries>>
    /\ UNCHANGED <<cfgvars, pc, result, cancel_req, consumed, iters, interrupts>>

\* A task cancelled while its request is in flight: CancelledError is not an
\* Exception, so it leaves "async with sem" (release) without pbar.update.
CancelInFlight_Swallowed(i) ==
    /\ st[i] = "inflight"
    /\ i \in cancel_req
    /\ Finish(i, sem_value, st, waiters, "None", "error")
    /\ progress' = PbarUpdate(progress)
    /\ cancel_req' = cancel_req \ {i}
    /\ UNCHANGED <<pbar_closed, announced, reqvars, gate_entries>>
    /\ UNCHANGED <<cfgvars, pc, result, consumed, iters, interrupts>>

CancelInFlight(i) ==
    /\ st[i] = "inflight"
    /\ i \in cancel_req
    /\ LET rel == Release(sem_value, st, waiters)
       IN  /\ sem_value' = rel.val
           /\ st' = [rel.st EXCEPT ![i] = "cancelled"]
    /\ cancel_req' = cancel_req \ {i}
    /\ gate_exits' = [gate_exits EXCEPT ![i] = @ + 1]
    /\ UNCHANGED <<waiters, ret, status, doneq, gate_entries, outvars, reqvars>>
    /\ UNCHANGED <<cfgvars, pc, result, consumed, iters, interrupts>>

\* A waiter cancelled after it was handed a permit: acquire() gives the
\* permit back (value += 1; _wake_up_next()) and re-raises.
CancelWoken(i) ==
    /\ st[i] = "woken"
    /\ i \in cancel_req
    /\ LET w == Remove(waiters, i)
           rel == WakeUpNext(sem_value + 1, st, w)
       IN  /\ waiters' = w
           /\ sem_value' = rel.val
           /\ st' = [rel.st EXCEPT ![i] = "cancelled"]
    /\ cancel_req' = cancel_req \ {i}
    /\ UNCHANGED <<ret, status, doneq, gate_entries, gate_exits, outvars, reqvars>>
    /\ UNCHANGED <<cfgvars, pc, result, consumed, iters, interrupts>>

\* ------------------------------------------------------------------------
\* PasswordGuesser.run
\* ------------------------------------------------------------------------
\* "if result:" - a returned password is never empty (wordlist lines are
\* stripped and empty ones dropped), None is falsy
Truthy_Inverted(r) == r = "None"

Truthy(r) == r = "password"

\* as_completed yields one awaitable per task: the loop ends after
\* len(tasks) iterations
LoopEnds_OneShort(k) == k >= N - 1

LoopEnds(k) == k = N

\* "await fut": the completions come out of as_completed's queue first in,
\* first out; k of them were taken before
NextCompletion_Newest(q, k) == q[Len(q)]

NextCompletion_Submission(q, k) == k + 1

NextCompletion(q, k) == q[k + 1]

NotDone(stm) == {t \in Tasks : stm[t] \in {"pending", "waiting", "woken", "inflight"}}

\* t.cancel() for every task that is not done.  A task that never ran, or
\* that waits in sem.acquire() without a permit, ends cancelled without
\* running any more of _try_login; a task that holds a permit (woken, or
\* with its request in flight) gets CancelledError at its next step.
CancelRemaining_OnlyInFlight ==
    /\ st' = st
    /\ waiters' = waiters
    /\ cancel_req' = cancel_req \cup {t \in Tasks : st[t] = "inflight"}

CancelRemaining_OnlyNotStarted ==
    /\ st' = [t \in Tasks |->
                 IF st[t] \in {"pending", "waiting"} THEN "cancelled" ELSE st[t]]
    /\ waiters' = SelectSeq(waiters, LAMBDA t : st[t] # "waiting")
    /\ cancel_req' = cancel_req

CancelRemaining ==
    /\ st' = [t \in Tasks |->
                 IF st[t] \in {"pending", "waiting"} THEN "cancelled" ELSE st[t]]
    /\ waiters' = SelectSeq(waiters, LAMBDA t : st[t] # "waiting")
    /\ cancel_req' = cancel_req \cup {t \in Tasks : st[t] \in {"woken", "inflight"}}

\* run() up to its first suspension: semaphore, session, progress bar, one
\* task per password; with an empty wordlist the loop body never runs.
RunStart ==
    /\ pc = "idle"
    /\ sem_value' = threads
    /\ st' = [i \in Tasks |-> "pending"]
    /\ IF N = 0
       THEN /\ pc' = "returned"
            /\ result' = Exhausted
            /\ pbar_closed' = TRUE
       ELSE /\ pc' = "awaiting"
            /\ UNCHANGED <<result, pbar_closed>>
    /\ UNCHANGED <<cfgvars, cancel_req, ret, status, waiters, doneq, consumed,
                   iters, progress, announced, reqvars, gate_entries,
                   gate_exits, interrupts>>

\* One iteration of "for fut in asyncio.as_completed(tasks)": take the next
\* completion in completion order; a truthy result cancels the rest and is
\* returned; after len(tasks) iterations the loop ends and run returns None.
\* (Completions by cancellation are not queued: while run is in the loop no
\* task is cancelled except by the actions that end the loop.)
Observe ==
    /\ pc = "awaiting"
    /\ consumed < Len(doneq)
    /\ LET f == NextCompletion(doneq, consumed)
       IN  /\ consumed' = consumed + 1
           /\ iters' = iters + 1
           /\ IF Truthy(ret[f])
              THEN /\ CancelRemaining
                   /\ result' = Found(f)
                   /\ pc' = "returned"
                   /\ pbar_closed' = TRUE
              ELSE IF LoopEnds(iters + 1)
              THEN /\ result' = Exhausted
                   /\ pc' = "returned"
                   /\ pbar_closed' = TRUE
                   /\ UNCHANGED <<st, waiters, cancel_req>>
              ELSE UNCHANGED <<result, pc, pbar_closed, st, waiters, cancel_req>>
    /\ UNCHANGED <<cfgvars, ret, status, sem_value, doneq, progress, announced,
                   reqvars, gate_entries, gate_exits, interrupts>>

\* ------------------------------------------------------------------------
\* main: asyncio.run(guesser.run()) under "except KeyboardInterrupt"
\* ------------------------------------------------------------------------
\* First SIGINT (asyncio.run of CPython >= 3.11 cancels the main task):
\* CancelledError is raised at "await fut" in run() and caught by
\* "except asyncio.CancelledError: continue".  The iteration is used up, no
\* completion is taken, and the loop goes on (or ends, if it was the last).
Interrupt ==
    /\ pc = "awaiting"
    /\ interrupts = 0
    /\ interrupts' = 1
    /\ iters' = iters + 1
    /\ IF LoopEnds(iters + 1)
       THEN /\ result' = Exhausted
            /\ pc' = "returned"
            /\ pbar_closed' = TRUE
       ELSE UNCHANGED <<result, pc, pbar_closed>>
    /\ UNCHANGED <<cfgvars, st, cancel_req, ret, status, semvars, doneq,
                   consumed, progress, announced, reqvars, gate_entries,
                   gate_exits>>

\* KeyboardInterrupt raised out of the event loop (a second SIGINT, or any
\* SIGINT before CPython 3.11): asyncio.run cancels every task, main prints
\* "[!] Aborted by user".
KeyboardAbort ==
    /\ pc = "awaiting"
    /\ interrupts' = interrupts + 1
    /\ CancelRemaining
    /\ pc' = "aborted"
    /\ result' = Aborted
    /\ pbar_closed' = TRUE
    /\ UNCHANGED <<cfgvars, ret, status, sem_value, doneq, consumed, iters,
                   progress, announced, reqvars, gate_entries, gate_exits>>

\* asyncio.run closing the loop after run() returned: tasks still pending
\* are cancelled.
Shutdown ==
    /\ pc = "returned"
    /\ NotDone(st) \ cancel_req # {}
    /\ CancelRemaining
    /\ UNCHANGED <<cfgvars, pc, result, ret, status, sem_value, doneq, consumed,
                   iters, outvars, reqvars, gate_entries, gate_exits, interrupts>>

\* ------------------------------------------------------------------------
\* Specifications
\* ------------------------------------------------------------------------
\* the engine: run() and its tasks, no signal
Next ==
    \/ RunStart
    \/ \E i \in Tasks : Start(i)
    \/ \E i \in Tasks : Resume(i)
    \/ \E i \in Tasks, code \in StatusCodes : Response(i, code)
    \/ \E i \in Tasks : RequestError(i)
    \/ \E i \in Tasks : CancelInFlight(i)
    \/ \E i \in Tasks : CancelWoken(i)
    \/ Observe

Spec == Init /\ [][Next]_vars

\* The engine on a running event loop: the loop does not stall while a
\* callback is ready (a task that can step, run() with a completion queued)
\* and a request in flight ends with a response or an error.  Every step
\* advances a task or run(), so this one condition is enough.
Fairness == WF_vars(Next)

SpecFair == Spec /\ Fairness

\* the engine under main, with SIGINT from the terminal
NextAbort ==
    \/ Next
    \/ Interrupt
    \/ KeyboardAbort
    \/ Shutdown

SpecAbort == Init /\ [][NextAbort]_vars

\* ------------------------------------------------------------------------
\* _payload over a wider set of texts: short runs with a permit for every
\* task, followed up to the call of session.request
\* ------------------------------------------------------------------------
MaxPayloadRun == 2  \* longest wordlist of these runs

InitPayload ==
    /\ payload_tpl \in PayloadTemplates
    /\ username \in PayloadUsernames
    /\ passwords \in UNION {[1..n -> PayloadCandidates] : n \in 1..MaxPayloadRun}
    /\ method \in Methods
    /\ threads = Len(passwords)
    /\ Idle

NextPayload ==
    \/ RunStart
    \/ \E i \in Tasks : Start(i)

SpecPayload == InitPayload /\ [][NextPayload]_vars

\* ------------------------------------------------------------------------
\* Properties
\* ------------------------------------------------------------------------
\* attempts inside the body of "async with sem"
Holders == {i \in Tasks : gate_entries[i] > gate_exits[i]}

\* tasks that completed by returning (Success, Failure or Error)
Completed == {i \in Tasks : st[i] = "done"}

\* the template fails to build even with plain values for both placeholders
TemplateMalformed == _payload(payload_tpl, <<"a">>, <<"x">>).raised

\* C1: in every reachable state, under every interleaving of task start,
\* completion, error and cancellation, at most `threads` attempts are inside
\* the gated section of _try_login.
C1_GateBound == Cardinality(Holders) <= threads

C1_Witness ==
    /\ Cardinality(Holders) = threads
    /\ \E i \in Tasks : st[i] = "waiting"
    /\ \E i \in Tasks : st[i] = "done"

\* C2: when run() has returned and exactly one candidate X got status 200,
\* the result is Found(X): not Exhausted, not another candidate, whatever
\* the position of X, the ceiling and the completion order.
C2_UniqueSuccessFound ==
    pc = "returned" =>
        \A X \in Tasks :
            (status[X] = "200" /\ \A j \in Tasks \ {X} : status[j] # "200")
                => result = Found(X)

C2_Witness ==
    /\ pc = "returned"
    /\ N >= 2
    /\ status[N] = "200"
    /\ \A j \in 1..(N - 1) : status[j] = "401"
    /\ result = Found(N)

\* C3: when run() has returned and no candidate got status 200, the result
\* is Exhausted and every attempt has completed as a Failure or an Error:
\* none is waiting on the gate, in flight or cancelled.
C3_ExhaustedAfterAll ==
    (pc = "returned" /\ \A i \in Tasks : status[i] # "200") =>
        /\ result = Exhausted
        /\ \A i \in Tasks :
              /\ st[i] = "done"
              /\ ret[i] = "None"
              /\ status[i] \in {"401", "error", "raised"}

C3_Witness ==
    /\ pc = "returned"
    /\ result = Exhausted
    /\ N >= 2
    /\ \E i \in Tasks : status[i] = "401"
    /\ \E i \in Tasks : status[i] = "error"

\* C4: run() returns Found(c) only for an attempt that received status 200;
\* an attempt that ended with another status, a transport error or a
\* payload-build exception is never the result.
C4_FoundOnly200 ==
    result.kind = "Found" =>
        /\ result.task \in Tasks
        /\ status[result.task] = "200"
        /\ result.value = passwords[result.task]

C4_Witness ==
    /\ result.kind = "Found"
    /\ \E i \in Tasks : status[i] = "401"
    /\ \E i \in Tasks : status[i] \in {"error", "raised"}

\* the first success in completion order
FirstSuccess ==
    doneq[CHOOSE k \in 1..Len(doneq) :
              /\ status[doneq[k]] = "200"
              /\ \A m \in 1..(k - 1) : status[doneq[m]] # "200"]

\* C5: with two or more successes the run still produces one result, the
\* first success in completion order; a later success neither changes nor
\* repeats it, and a returned result (Found or Exhausted) never changes.
C5_FirstSuccessWins ==
    /\ [](pc = "returned" /\ (\E i \in Tasks : status[i] = "200")
             => result = Found(FirstSuccess))
    /\ [][pc = "returned" => (pc' = "returned" /\ result' = result)]_vars

C5_Witness ==
    /\ pc = "returned"
    /\ Cardinality({i \in Tasks : status[i] = "200"}) >= 2
    /\ result.kind = "Found"

\* C6: once the caller has interrupted a running run, the run never ends
\* Found or Exhausted.
C6_NoResultAfterInterrupt ==
    interrupts > 0 => result.kind \notin {"Found", "Exhausted"}

\* C7: with a malformed template no attempt enters the gate, no progress is
\* reported and the run does not end Exhausted.
C7_MalformedTemplateNeverRuns ==
    TemplateMalformed =>
        /\ \A i \in Tasks : gate_entries[i] = 0
        /\ progress = 0
        /\ result.kind # "Exhausted"

C9_PayloadPlacement ==
    \A i \in Tasks :
        nreq[i] > 0 =>
            LET pl == _payload(payload_tpl, username, passwords[i]).dict
                structured == StartsAt(payload_tpl, 1, <<"{">>)
                r == req[i]
            IN  /\ (r.method = "POST" /\ structured) =>
                      /\ r.jsonGiven /\ r.json = pl
                      /\ ~r.dataGiven /\ ~r.paramsGiven
                /\ (r.method = "POST" /\ ~structured) =>
                      /\ r.dataGiven /\ r.data = pl
                      /\ ~r.jsonGiven /\ ~r.paramsGiven
                /\ r.method = "GET" =>
                      /\ r.paramsGiven /\ r.params = pl
                      /\ ~r.jsonGiven /\ ~r.dataGiven

\* C10: with a valid template every attempt that entered the gate and was
\* not cancelled has sent exactly one request.
C10_OneRequestPerAttempt ==
    ~TemplateMalformed =>
        \A i \in Tasks :
            (gate_entries[i] > 0 /\ st[i] = "done") => nreq[i] = 1

\* C11: with the flat template e=^USER^&p=^PASS^, _payload gives exactly the
\* pairs {e: username, p: candidate} for every username and candidate: no
\* extra key, no value cut short or altered.
C11_FlatPairsExact ==
    payload_tpl = TplForm =>
        \A i \in Tasks :
            built[i].kind # "-" =>
                /\ ~built[i].raised
                /\ built[i].dict = {<<(<<"e">>), Str(username)>>,
                                    <<(<<"p">>), Str(passwords[i])>>}

\* C16: within one run every attempt takes the same branch of _payload
\* (JSON or key=value), whatever its candidate.
C16_OneRepresentationPerRun ==
    \A i, j \in Tasks :
        (built[i].kind # "-" /\ built[j].kind # "-")
            => built[i].kind = built[j].kind

\* C12: once run() has returned Found (cancellation signalled), no attempt
\* enters the gate or calls session.request any more: not a task that never
\* ran, not a waiter, not a waiter already handed the permit.
C12_NoStartAfterCancel ==
    [][(pc = "returned" /\ result.kind = "Found")
          => (gate_entries' = gate_entries /\ nreq' = nreq)]_vars

C12_Witness ==
    /\ pc = "returned"
    /\ result.kind = "Found"
    /\ \E i \in Tasks : st[i] = "woken" /\ i \in cancel_req
    /\ \E i \in Tasks : st[i] = "cancelled" /\ gate_entries[i] = 0

\* tasks that run() has cancelled or asked to cancel
Signalled == {t \in Tasks : st[t] = "cancelled"} \cup cancel_req

\* C13: tasks are cancelled only in the step in which run() takes a success
\* from the completion queue and returns it, and that step cancels every
\* task that is not done; while no attempt has succeeded nothing is cancelled.
C13_CancelOnlyOnSuccess ==
    /\ [][Signalled' # Signalled =>
             /\ pc = "awaiting"
             /\ consumed' = consumed + 1
             /\ result' = Found(doneq[consumed'])
             /\ status[result'.task] = "200"]_vars
    /\ [][(result.kind # "Found" /\ result'.kind = "Found")
             => NotDone(st') \subseteq cancel_req']_vars
    /\ []((\A i \in Tasks : status[i] # "200") => Signalled = {})

C13_Witness ==
    /\ result.kind = "Found"
    /\ \E i \in Tasks : st[i] = "cancelled" /\ gate_entries[i] = 1
    /\ \E i \in Tasks : st[i] = "cancelled" /\ gate_entries[i] = 0

\* waiters that were handed a permit and have not resumed yet
Woken == {t \in Tasks : st[t] = "woken"}

\* C14: the step in which an attempt ends in a transport error makes it a
\* non-success inside _try_login: the task is done with None, it has left
\* the gate and its permit is free again or handed to the first waiter, one
\* progress unit is reported, and run() is not terminated; a run that has
\* returned has ended Found or Exhausted.
C14_TransportErrorSwallowed ==
    /\ [][\A i \in Tasks :
             (status[i] # "error" /\ status'[i] = "error") =>
                 /\ st[i] = "inflight" /\ st'[i] = "done" /\ ret'[i] = "None"
                 /\ gate_exits'[i] = gate_exits[i] + 1
                 /\ sem_value' + Cardinality(Woken') = sem_value + Cardinality(Woken) + 1
                 /\ (\E t \in Tasks : st[t] = "waiting")
                        => (\E t \in Tasks : st[t] = "waiting" /\ st'[t] = "woken")
                 /\ progress' = progress + 1
                 /\ pc' = pc /\ result' = result]_vars
    /\ [](pc = "returned" => result.kind \in {"Found", "Exhausted"})

C14_Witness ==
    /\ threads = 1
    /\ N >= 2
    /\ status[1] = "error"
    /\ st[2] = "inflight"

\* C15: an attempt cancelled during wind-down gives no outcome.  A task
\* whose cancellation is requested can only end cancelled, in a step that
\* reports no progress and queues no completion; a cancelled task has no
\* return value and no status, is not the result, and has left the gate if
\* it entered it; the permit of a task cancelled in flight is freed, and
\* when no task is left every permit is back.
C15_CancelledNoOutcome ==
    /\ [][\A i \in cancel_req :
             st'[i] # st[i] =>
                 /\ st'[i] = "cancelled"
                 /\ progress' = progress
                 /\ doneq' = doneq]_vars
    /\ [][(\E i \in Tasks : st[i] # "cancelled" /\ st'[i] = "cancelled") =>
             /\ progress' = progress
             /\ sem_value' + Cardinality(Woken') =
                    sem_value + Cardinality(Woken)
                    + Cardinality({i \in Tasks : st[i] = "inflight"
                                                  /\ st'[i] = "cancelled"})]_vars
    /\ [](\A i \in Tasks :
             st[i] = "cancelled" =>
                 /\ ret[i] = "-" /\ status[i] = "-"
                 /\ \A k \in 1..Len(doneq) : doneq[k] # i
                 /\ result.task # i
                 /\ gate_exits[i] = gate_entries[i])
    /\ []((pc # "idle" /\ NotDone(st) = {}) => sem_value = threads)

C15_Witness ==
    /\ NotDone(st) = {}
    /\ \E i \in Tasks : st[i] = "cancelled" /\ gate_entries[i] = 1
    /\ \E i \in Tasks : st[i] = "cancelled" /\ gate_entries[i] = 0
    /\ \E i \in Tasks : st[i] = "done" /\ status[i] = "401"

\* C17: run() takes completions in completion order.  The step that takes
\* the next completed task returns Found for it at once when it succeeded,
\* whatever the state of the tasks submitted before it, and does not return
\* Found when it did not succeed.
C17_CompletionOrder ==
    [][consumed' = consumed + 1 =>
          LET j == doneq[consumed']
          IN  /\ ret[j] = "password" =>
                     /\ result' = Found(j)
                     /\ pc' = "returned"
              /\ ret[j] # "password" => result'.kind # "Found"]_vars

C17_Witness ==
    /\ pc = "returned"
    /\ result.kind = "Found"
    /\ consumed = 1
    /\ result.task >= 2
    /\ \E i \in 1..(result.task - 1) : st[i] = "inflight" /\ i \in cancel_req
    /\ \A i \in 1..(result.task - 1) : st[i] # "done"

\* C18: on a fair event loop where every request ends, every run, of any
\* wordlist (the empty one too) and any ceiling, returns Found or
\* Exhausted, and from some point on no attempt is queued on the semaphore:
\* none waits for ever.
C18_RunTerminates ==
    <>[](/\ pc = "returned"
         /\ result.kind \in {"Found", "Exhausted"}
         /\ \A i \in Tasks : st[i] # "waiting")

C18_Witness ==
    /\ pc = "returned"
    /\ result = Exhausted
    /\ N > threads
    /\ \A i \in Tasks : st[i] = "done" /\ gate_exits[i] = 1

\* attempts that hold a permit: inside the body of "async with sem", or a
\* waiter that release() handed its permit to and that has not resumed yet
PermitHolders == Holders \cup Woken

\* C19: once the semaphore exists, free permits plus attempts holding one
\* equal the ceiling in every state; an attempt enters the gate at most once
\* and has left it exactly as often as it entered when it is done (by
\* return, on 200, on another status or on a swallowed exception) or
\* cancelled; an attempt cancelled while queued takes and frees no permit.
C19_GateConservation ==
    /\ [](pc # "idle" => sem_value + Cardinality(PermitHolders) = threads)
    /\ [](\A i \in Tasks :
             /\ gate_exits[i] <= gate_entries[i]
             /\ gate_entries[i] <= 1
             /\ st[i] = "done" => (gate_entries[i] = 1 /\ gate_exits[i] = 1)
             /\ st[i] = "cancelled" => gate_exits[i] = gate_entries[i])
    /\ [][\A i \in Tasks :
             (st[i] = "waiting" /\ st'[i] = "cancelled") =>
                 /\ sem_value' = sem_value
                 /\ gate_entries'[i] = 0 /\ gate_exits'[i] = 0]_vars

C19_Witness ==
    /\ pc # "idle"
    /\ sem_value = threads
    /\ \E i \in Tasks : st[i] = "done" /\ status[i] = "200"
    /\ \E i \in Tasks : st[i] = "cancelled" /\ gate_exits[i] = 1
    /\ \E i \in Tasks : st[i] = "cancelled" /\ gate_entries[i] = 0 /\ i \notin Woken

\* C20: at most one candidate ever prints "[+] Password found", and when
\* run() returns Found it is that candidate.
C20_OneAnnouncement ==
    /\ Len(announced) <= 1
    /\ (result.kind = "Found" /\ announced # <<>>) => announced[1] = result.task

====
